---- MODULE Spec2Model ----
(***************************************************************************)
(* A model of hw_12_ph_book.py: the validated fields, Record, and          *)
(* AddressBook with its ordered dict, its lookups and its iteration.       *)
(*                                                                         *)
(* Record objects live in a heap, recs, a function from the ids of the     *)
(* live objects; AddressBook.data is the ordered dict, a sequence of       *)
(* <<key, record id>> in insertion order.  A Phone object is held by its   *)
(* value.  A Python str used as a phone is a sequence of characters, so    *)
(* that str.isdigit is computed character by character.  An Optional[T] is *)
(* a sequence of length at most one: <<>> is None, <<v>> is v.  A date is  *)
(* <<year, month, day>>.                                                   *)
(*                                                                         *)
(* Four specifications share the variables:                               *)
(*   Spec        the AddressBook operations on one book, whose caller      *)
(*               keeps no reference to a Record of its own;                *)
(*   SpecRecord  the Phone and Record operations on records the caller     *)
(*               constructed and holds;                                    *)
(*   SpecIter    traversals of an unmodified book;                         *)
(*   SpecDate    Record.days_to_birthday for a birthday and a current date.*)
(***************************************************************************)
EXTENDS Integers, Sequences, FiniteSets, TLC

VARIABLES
    data,       \* AddressBook.data: sequence of <<key, record id>>
    recs,       \* heap of Record objects: id -> [name, phones, birthday]
    last,       \* how the last call ended: [op, exc, ret]
    self_index, \* AddressBook._index (None while the attribute does not exist)
    self_keys,  \* AddressBook._keys  (None while the attribute does not exist)
    trav,       \* the caller's traversals: [kind, pc, out]
    disturbed,  \* per traversal: another traversal moved the cursor since it started
    today,      \* datetime.now().date()
    birthday,   \* Record.birthday of the record days_to_birthday is called on
    dtb         \* how days_to_birthday ended: [called, exc, ret]

vars == <<data, recs, last, self_index, self_keys, trav, disturbed,
          today, birthday, dtb>>

iterVars == <<self_index, self_keys, trav, disturbed>>
dateVars == <<today, birthday, dtb>>

(***************************************************************************)
(* Bounds of the model.                                                    *)
(***************************************************************************)
MaxRecs == 1      \* Record objects the caller constructs and holds (SpecRecord)
MaxPhones == 3    \* phones of one Record (SpecRecord)
MaxListLen == 1   \* length of a phones list given to add_record / edit_record
MaxBook == 3      \* records of the book that is traversed (SpecIter)
MaxYield == 4     \* records one traversal is followed for (SpecIter)
YearLo == 2023    \* the current date ranges over the years YearLo..YearHi
YearHi == 2024
BirthYear == 2000 \* the year of the birthdays (a leap year, so 29 February exists)

None == <<>>
Some(v) == <<v>>

(***************************************************************************)
(* Inputs.                                                                 *)
(***************************************************************************)
\* U+00B2 SUPERSCRIPT TWO is written "sup2": Numeric_Type=Digit, not Decimal.
DecimalChars == {"0", "1", "2", "3", "4", "5", "6", "7", "8", "9"}
DigitChars == DecimalChars \cup {"sup2"}

PhoneStrings == { <<>>, <<"1">>, <<"1", "a">>, <<"sup2">> }
NameStrings == {"Ann", "Bob"}
RecordNames == {"Ann"}
NewNames == {None, Some(""), Some("Bob")}
Birthdays == {None, Some(<<1990, 5, 1>>)}
PageSizes == {1, 2}

RECURSIVE SeqsUpTo(_, _)
SeqsUpTo(S, n) ==
    IF n = 0 THEN {<<>>}
    ELSE LET shorter == SeqsUpTo(S, n - 1)
         IN  shorter \cup {Append(q, x) : q \in shorter, x \in S}

PhoneLists == {None} \cup {Some(l) : l \in SeqsUpTo(PhoneStrings, MaxListLen)}

Range(q) == {q[i] : i \in 1..Len(q)}

(***************************************************************************)
(* Phone                                                                   *)
(***************************************************************************)
\* str.isdigit(): at least one character, and every character is a digit
\* (Numeric_Type Digit or Decimal).
str_isdigit(s) == Len(s) > 0 /\ \A i \in 1..Len(s) : s[i] \in DigitChars

\* Phone.validate_phone for an argument of the given type.
validate_phone(kind, s) == kind = "str" /\ str_isdigit(s)

\* The values a Phone object can hold: Phone.set_value is the only writer.
PhoneValues == {s \in PhoneStrings : validate_phone("str", s)}

\* What a caller may pass where a phone is expected: a str, a Phone object
\* (s is its value) or a value of another type.
PhoneArgs ==
    {[kind |-> "str", s |-> s] : s \in PhoneStrings}
    \cup {[kind |-> "Phone", s |-> s] : s \in PhoneValues}
    \cup {[kind |-> "other", s |-> <<>>]}

Outcome(op, exc, ret) == [op |-> op, exc |-> exc, ret |-> ret]

\* What a call leaves: the dict, the heap and how the call ended.
Result(d, h, l) == [data |-> d, recs |-> h, last |-> l]
\* Phone(s): a new Phone object, or ValueError.
PhoneInit(s) ==
    /\ last' = IF validate_phone("str", s)
               THEN Outcome("Phone", "None", <<"Phone", s>>)
               ELSE Outcome("Phone", "ValueError", None)
    /\ UNCHANGED <<data, recs, iterVars, dateVars>>

(***************************************************************************)
(* The heap and the ordered dict AddressBook.data                          *)
(***************************************************************************)
\* The id of the next object: the lowest one no live object has.
NewId(h) == CHOOSE i \in 1..(Cardinality(DOMAIN h) + 1) :
                /\ i \notin DOMAIN h
                /\ \A j \in 1..(i - 1) : j \in DOMAIN h
Alloc(h, rec) == (NewId(h) :> rec) @@ h
\* Objects no entry of d refers to are freed.
Release(h, d) == [i \in (DOMAIN h \cap {d[j][2] : j \in 1..Len(d)}) |-> h[i]]

Keys(d) == [i \in 1..Len(d) |-> d[i][1]]
Values(d) == [i \in 1..Len(d) |-> d[i][2]]
KeyPos(d, k) == IF \E i \in 1..Len(d) : d[i][1] = k
                THEN CHOOSE i \in 1..Len(d) : d[i][1] = k
                ELSE 0
HasKey(d, k) == KeyPos(d, k) # 0
Lookup(d, k) == d[KeyPos(d, k)][2]
\* d[k] = v: an existing key keeps its position, a new key goes last.
DictSet(d, k, v) == IF HasKey(d, k) THEN [d EXCEPT ![KeyPos(d, k)] = <<k, v>>]
                    ELSE Append(d, <<k, v>>)
\* del d[k] for a key of d.
DictDel(d, k) == LET p == KeyPos(d, k)
                 IN  SubSeq(d, 1, p - 1) \o SubSeq(d, p + 1, Len(d))

(***************************************************************************)
(* Record                                                                  *)
(***************************************************************************)
RecIds == DOMAIN recs

\* Record(name, phone, birthday); phone is an Optional[str].
RecordInit(name, phone, bd) ==
    /\ Cardinality(RecIds) < MaxRecs
    /\ IF phone # None /\ Len(phone[1]) > 0
       THEN IF validate_phone("str", phone[1])
            THEN /\ recs' = Alloc(recs, [name |-> name, phones |-> <<phone[1]>>,
                                         birthday |-> bd])
                 /\ last' = Outcome("Record", "None", None)
            ELSE /\ recs' = recs
                 /\ last' = Outcome("Record", "ValueError", None)
       ELSE /\ recs' = Alloc(recs, [name |-> name, phones |-> <<>>, birthday |-> bd])
            /\ last' = Outcome("Record", "None", None)
    /\ UNCHANGED <<data, iterVars, dateVars>>

\* Record.add_phone(phone)
add_phone(r, kind, s) ==
    /\ r \in RecIds
    /\ Len(recs[r].phones) < MaxPhones
    /\ CASE kind = "str" ->
              IF validate_phone("str", s)
              THEN /\ recs' = [recs EXCEPT ![r].phones = Append(@, s)]
                   /\ last' = Outcome("add_phone", "None", None)
              ELSE /\ recs' = recs
                   /\ last' = Outcome("add_phone", "ValueError", None)
         [] kind = "Phone" ->
              /\ recs' = [recs EXCEPT ![r].phones = Append(@, s)]
              /\ last' = Outcome("add_phone", "None", None)
         [] OTHER ->
              /\ recs' = recs
              /\ last' = Outcome("add_phone", "ValueError", None)
    /\ UNCHANGED <<data, iterVars, dateVars>>

\* The loop of get_index_by_phone: the first index from i whose value is v,
\* 0 for None.
RECURSIVE IndexFrom(_, _, _)
IndexFrom(phs, v, i) ==
    IF i > Len(phs) THEN 0
    ELSE IF phs[i] = v THEN i
    ELSE IndexFrom(phs, v, i + 1)

\* The last index whose value is v, 0 for None.
IndexLast(phs, v) ==
    IF \E i \in 1..Len(phs) : phs[i] = v
    THEN CHOOSE i \in 1..Len(phs) : phs[i] = v /\ \A j \in (i + 1)..Len(phs) : phs[j] # v
    ELSE 0

get_index_by_phone_last(phs, kind, s) ==
    IF kind = "other" THEN 0 ELSE IndexLast(phs, s)

\* Record.get_index_by_phone: a Phone argument is replaced by its value; a
\* value of another type equals no phone value.
get_index_by_phone(phs, kind, s) ==
    IF kind = "other" THEN 0 ELSE IndexFrom(phs, s, 1)

\* Record.remove_phone(phone) on the record r.
remove_phone_result(r, kind, s) ==
    LET phs == recs[r].phones
        inx == get_index_by_phone(phs, kind, s)
    IN  IF inx = 0
        THEN Result(data, recs, Outcome("remove_phone", "ValueError", None))
        ELSE Result(data,
                    [recs EXCEPT ![r].phones =
                        SubSeq(phs, 1, inx - 1) \o SubSeq(phs, inx + 1, Len(phs))],
                    Outcome("remove_phone", "None", <<"The phone deleted", s>>))

remove_phone(r, kind, s) ==
    /\ r \in RecIds
    /\ LET res == remove_phone_result(r, kind, s)
       IN  /\ data' = res.data
           /\ recs' = res.recs
           /\ last' = res.last
    /\ UNCHANGED <<iterVars, dateVars>>

\* Record.edit_phone(old_phone, new_phone): old_phone is compared with each
\* value by ==, so only a str can match; new_phone goes through
\* Phone.set_value.
edit_phone(r, oldKind, old, newKind, new) ==
    /\ r \in RecIds
    /\ LET phs == recs[r].phones
           inx == IF oldKind = "str" THEN IndexFrom(phs, old, 1) ELSE 0
       IN  IF inx = 0
           THEN /\ recs' = recs
                /\ last' = Outcome("edit_phone", "None", None)
           ELSE IF validate_phone(newKind, new)
                THEN /\ recs' = [recs EXCEPT ![r].phones[inx] = new]
                     /\ last' = Outcome("edit_phone", "None", None)
                ELSE /\ recs' = recs
                     /\ last' = Outcome("edit_phone", "ValueError", None)
    /\ UNCHANGED <<data, iterVars, dateVars>>

(***************************************************************************)
(* AddressBook                                                             *)
(***************************************************************************)
\* The number of leading strings of l that Phone accepts: the loop
\* "for phone in phones: record.add_phone(phone)" ends at the first other.
RECURSIVE AcceptedPrefix(_, _)
AcceptedPrefix(l, i) ==
    IF i > Len(l) THEN Len(l)
    ELSE IF validate_phone("str", l[i]) THEN AcceptedPrefix(l, i + 1)
    ELSE i - 1

\* AddressBook.add_record(name, phones, birthday): the Record is constructed
\* and filled first, and dropped if a phone is refused; else it is stored
\* under name, and a Record it replaces is freed.
add_record_result(name, phones, bd) ==
    LET l == IF phones = None THEN <<>> ELSE phones[1]
        n == AcceptedPrefix(l, 1)
        d == DictSet(data, name, NewId(recs))
    IN  IF n = Len(l)
        THEN Result(d,
                    Release(Alloc(recs, [name |-> name, phones |-> l, birthday |-> bd]), d),
                    Outcome("add_record", "None", None))
        ELSE Result(data, recs, Outcome("add_record", "ValueError", None))

add_record(name, phones, bd) ==
    LET res == add_record_result(name, phones, bd)
    IN  /\ data' = res.data
        /\ recs' = res.recs
        /\ last' = res.last
        /\ UNCHANGED <<iterVars, dateVars>>

\* dict.pop(name, None) in place of del: no KeyError.
delete_record_pop(name) ==
    IF HasKey(data, name)
    THEN Result(DictDel(data, name), Release(recs, DictDel(data, name)),
                Outcome("delete_record", "None", None))
    ELSE Result(data, recs, Outcome("delete_record", "None", None))

\* AddressBook.delete_record(name): del self.data[name]; the Record is freed.
delete_record_result(name) ==
    IF HasKey(data, name)
    THEN Result(DictDel(data, name), Release(recs, DictDel(data, name)),
                Outcome("delete_record", "None", None))
    ELSE Result(data, recs, Outcome("delete_record", "KeyError", None))

delete_record(name) ==
    LET res == delete_record_result(name)
    IN  /\ data' = res.data
        /\ recs' = res.recs
        /\ last' = res.last
        /\ UNCHANGED <<iterVars, dateVars>>

\* AddressBook.edit_record(name, new_name, new_phones): the rename, then the
\* phones emptied and refilled up to the first string Phone refuses.
edit_record_result(name, new_name, new_phones) ==
    LET l == IF new_phones = None THEN <<>> ELSE new_phones[1]
        n == AcceptedPrefix(l, 1)
    IN  IF ~HasKey(data, name)
        THEN Result(data, recs, Outcome("edit_record", "None", <<"Name not found", name>>))
        ELSE LET r == Lookup(data, name)
                 renamed == IF new_name # None /\ new_name[1] # ""
                            THEN [recs EXCEPT ![r].name = new_name[1]]
                            ELSE recs
             IN  IF Len(l) = 0
                 THEN Result(data, renamed, Outcome("edit_record", "None", None))
                 ELSE Result(data, [renamed EXCEPT ![r].phones = SubSeq(l, 1, n)],
                             IF n = Len(l)
                             THEN Outcome("edit_record", "None", None)
                             ELSE Outcome("edit_record", "ValueError", None))

edit_record(name, new_name, new_phones) ==
    LET res == edit_record_result(name, new_name, new_phones)
    IN  /\ data' = res.data
        /\ recs' = res.recs
        /\ last' = res.last
        /\ UNCHANGED <<iterVars, dateVars>>

\* The loop of find_records_by_name from position i of d.values().
RECURSIVE FindFrom(_, _, _, _)
FindFrom(d, h, name, i) ==
    IF i > Len(d) THEN <<>>
    ELSE IF h[d[i][2]].name = name
         THEN <<d[i][2]>> \o FindFrom(d, h, name, i + 1)
         ELSE FindFrom(d, h, name, i + 1)

\* A lookup that stops at the first match.
find_first_by_name(d, h, name) ==
    LET all == FindFrom(d, h, name, 1) IN IF all = <<>> THEN <<>> ELSE <<all[1]>>

\* AddressBook.find_records_by_name(name) on the book d with the heap h.
find_records_by_name(d, h, name) == FindFrom(d, h, name, 1)

IdleIter == /\ self_index = None /\ self_keys = None
            /\ trav = <<>> /\ disturbed = <<>>
IdleDate == /\ today = <<YearLo, 1, 1>> /\ birthday = None
            /\ dtb = [called |-> FALSE, exc |-> "None", ret |-> None]

(***************************************************************************)
(* Iteration: AddressBook.__iter__, __next__ and the generator iterator.   *)
(* Every traversal reads and writes the one cursor self._index/self._keys. *)
(***************************************************************************)
\* The two traversals the caller holds: the first and the second.
Travs == {1, 2}

\* The value self._index gets when a traversal starts.
StaleIndex == IF self_index = None THEN 0 ELSE self_index[1]
StartIndex == 0

\* Traversals, other than t, that were started and have not ended: the step
\* of t moves the cursor they go on from.
InProgress(t) == {u \in Travs \ {t} : trav[u].kind # "none" /\ trav[u].pc = "suspended"}
Disturb(t, own) == [u \in Travs |-> IF u = t THEN own
                                    ELSE disturbed[u] \/ u \in InProgress(t)]

\* book.iterator(page_size): a generator object; no line of the body runs
\* before the first next().
iterator(t, page_size) ==
    /\ trav' = [trav EXCEPT ![t] = [kind |-> "gen", pc |-> "created", out |-> <<>>]]
    /\ disturbed' = [disturbed EXCEPT ![t] = FALSE]
    /\ UNCHANGED <<self_index, self_keys, data, recs, last, dateVars>>

\* next(g) on the generator of traversal t: from the start, or from the
\* yield, to the next yield or to the end of the loop.
iterator_next(t) ==
    /\ trav[t].kind = "gen"
    /\ Len(trav[t].out) < MaxYield
    /\ IF trav[t].pc = "done"
       THEN /\ UNCHANGED <<self_index, self_keys, trav, disturbed>>
            /\ last' = Outcome("next", "StopIteration", None)
       ELSE LET i == IF trav[t].pc = "created" THEN StartIndex ELSE self_index[1] + 1
                ks == IF trav[t].pc = "created" THEN Keys(data) ELSE self_keys[1]
            IN  /\ self_index' = Some(i)
                /\ self_keys' = Some(ks)
                /\ disturbed' = Disturb(t, IF trav[t].pc = "created" THEN FALSE
                                           ELSE disturbed[t])
                /\ IF i < Len(ks)
                   THEN /\ trav' = [trav EXCEPT ![t].pc = "suspended",
                                                ![t].out = Append(@, Lookup(data, ks[i + 1]))]
                        /\ last' = Outcome("next", "None", None)
                   ELSE /\ trav' = [trav EXCEPT ![t].pc = "done"]
                        /\ last' = Outcome("next", "StopIteration", None)
    /\ UNCHANGED <<data, recs, dateVars>>

\* iter(book): AddressBook.__iter__ resets the cursor and returns the book.
book_iter(t) ==
    /\ self_index' = Some(0)
    /\ self_keys' = Some(Keys(data))
    /\ trav' = [trav EXCEPT ![t] = [kind |-> "self", pc |-> "suspended", out |-> <<>>]]
    /\ disturbed' = Disturb(t, FALSE)
    /\ last' = Outcome("iter", "None", None)
    /\ UNCHANGED <<data, recs, dateVars>>

\* next(it) for it = iter(book): AddressBook.__next__.  The consumer stops
\* at the first StopIteration, as a for loop does.
book_next(t) ==
    /\ trav[t].kind = "self"
    /\ trav[t].pc = "suspended"
    /\ Len(trav[t].out) < MaxYield
    /\ disturbed' = Disturb(t, disturbed[t])
    /\ IF self_index[1] < Len(self_keys[1])
       THEN /\ trav' = [trav EXCEPT ![t].pc = "suspended",
                                    ![t].out = Append(@, Lookup(data, self_keys[1][self_index[1] + 1]))]
            /\ self_index' = Some(self_index[1] + 1)
            /\ last' = Outcome("next", "None", None)
       ELSE /\ trav' = [trav EXCEPT ![t].pc = "done"]
            /\ self_index' = self_index
            /\ last' = Outcome("next", "StopIteration", None)
    /\ UNCHANGED <<self_keys, data, recs, dateVars>>

IterNext ==
    \/ \E t \in Travs, page_size \in PageSizes : iterator(t, page_size)
    \/ \E t \in Travs : iterator_next(t)
    \/ \E t \in Travs : book_iter(t)
    \/ \E t \in Travs : book_next(t)

\* A book of n records added in the order of their ids, never modified.
BookKeys == <<"Ann", "Bob", "Cy", "Dee", "Eve", "Flo">>
InitIter ==
    /\ \E n \in 0..MaxBook :
          /\ data = [i \in 1..n |-> <<BookKeys[i], i>>]
          /\ recs = [i \in 1..n |-> [name |-> BookKeys[i], phones |-> <<>>,
                                     birthday |-> None]]
    /\ last = Outcome("AddressBook", "None", None)
    /\ self_index = None
    /\ self_keys = None
    /\ trav = [t \in Travs |-> [kind |-> "none", pc |-> "created", out |-> <<>>]]
    /\ disturbed = [t \in Travs |-> FALSE]
    /\ IdleDate

SpecIter == InitIter /\ [][IterNext]_vars

(***************************************************************************)
(* Dates: datetime.date as <<year, month, day>>.                           *)
(***************************************************************************)
IsLeap(y) == (y % 4 = 0 /\ y % 100 # 0) \/ y % 400 = 0
DaysInMonth(y, m) ==
    IF m = 2 THEN (IF IsLeap(y) THEN 29 ELSE 28)
    ELSE IF m \in {4, 6, 9, 11} THEN 30 ELSE 31
\* What datetime(y, m, d) and date.replace accept; anything else is ValueError.
ValidDate(d) == d[2] \in 1..12 /\ d[3] \in 1..DaysInMonth(d[1], d[2])
DaysBeforeYear(y) == 365 * (y - 1) + ((y - 1) \div 4) - ((y - 1) \div 100) + ((y - 1) \div 400)
RECURSIVE DaysBeforeMonth(_, _)
DaysBeforeMonth(y, m) == IF m = 1 THEN 0
                         ELSE DaysBeforeMonth(y, m - 1) + DaysInMonth(y, m - 1)
\* date.toordinal()
ToOrdinal(d) == DaysBeforeYear(d[1]) + DaysBeforeMonth(d[1], d[2]) + d[3]
\* date < date
DateLess(a, b) ==
    \/ a[1] < b[1]
    \/ a[1] = b[1] /\ a[2] < b[2]
    \/ a[1] = b[1] /\ a[2] = b[2] /\ a[3] < b[3]

DatesOf(years) == {d \in years \X (1..12) \X (1..31) : ValidDate(d)}

\* Record.days_to_birthday()
days_to_birthday ==
    /\ ~dtb.called
    /\ IF birthday = None
       THEN dtb' = [called |-> TRUE, exc |-> "None", ret |-> None]
       ELSE LET bm == birthday[1][2]
                bday == birthday[1][3]
                this == <<today[1], bm, bday>>
                next == <<today[1] + 1, bm, bday>>
            IN  IF ~ValidDate(this)
                THEN dtb' = [called |-> TRUE, exc |-> "ValueError", ret |-> None]
                ELSE IF DateLess(this, today)
                     THEN IF ~ValidDate(next)
                          THEN dtb' = [called |-> TRUE, exc |-> "ValueError", ret |-> None]
                          ELSE dtb' = [called |-> TRUE, exc |-> "None",
                                       ret |-> Some(ToOrdinal(next) - ToOrdinal(today))]
                     ELSE dtb' = [called |-> TRUE, exc |-> "None",
                                  ret |-> Some(ToOrdinal(this) - ToOrdinal(today))]
    /\ UNCHANGED <<today, birthday, data, recs, last, iterVars>>

\* A record with or without a birthday, and the current date.
InitDate ==
    /\ today \in DatesOf(YearLo..YearHi)
    /\ birthday \in {None} \cup {Some(d) : d \in DatesOf({BirthYear})}
    /\ dtb = [called |-> FALSE, exc |-> "None", ret |-> None]
    /\ data = <<>>
    /\ recs = <<>>
    /\ last = Outcome("Record", "None", None)
    /\ IdleIter

SpecDate == InitDate /\ [][days_to_birthday]_vars

RecordNext ==
    \/ \E s \in PhoneStrings : PhoneInit(s)
    \/ \E name \in RecordNames, phone \in {None} \cup {Some(s) : s \in PhoneStrings},
          bd \in Birthdays :
          RecordInit(name, phone, bd)
    \/ \E r \in RecIds, a \in PhoneArgs : add_phone(r, a.kind, a.s)
    \/ \E r \in RecIds, a \in PhoneArgs : remove_phone(r, a.kind, a.s)
    \/ \E r \in RecIds, o \in PhoneArgs, n \in PhoneArgs :
          edit_phone(r, o.kind, o.s, n.kind, n.s)

Next ==
    \/ \E name \in NameStrings, phones \in PhoneLists, bd \in Birthdays :
          add_record(name, phones, bd)
    \/ \E name \in NameStrings : delete_record(name)
    \/ \E name \in NameStrings, nn \in NewNames, phones \in PhoneLists :
          edit_record(name, nn, phones)

\* AddressBook(): an empty book; no Record constructed yet.
Init ==
    /\ data = <<>>
    /\ recs = <<>>
    /\ last = Outcome("AddressBook", "None", None)
    /\ IdleIter
    /\ IdleDate

Spec == Init /\ [][Next]_vars

SpecRecord == Init /\ [][RecordNext]_vars

(***************************************************************************)
(* The claims.                                                             *)
(***************************************************************************)
\* The spec's Phone predicate: non-empty, every character a decimal digit.
IsDecimalString(s) == Len(s) > 0 /\ \A i \in 1..Len(s) : s[i] \in DecimalChars

IsPrefix(a, b) == Len(a) <= Len(b) /\ a = SubSeq(b, 1, Len(a))

\* C1: edit_record with a name that is no key of the collection fails with
\* NotFound (it does not return normally) and leaves the keys and every
\* record unchanged.
C1_EditAbsentRaises ==
    [][\A name \in NameStrings, nn \in NewNames, phones \in PhoneLists :
          (edit_record(name, nn, phones) /\ ~HasKey(data, name))
          => (last'.exc # "None" /\ data' = data /\ recs' = recs)]_vars

C3_RenameKeepsKey ==
    /\ \A n \in NameStrings :
          find_records_by_name(data, recs, n)
             = SelectSeq(Values(data), LAMBDA r : recs[r].name = n)
    /\ \A name \in NameStrings, nn \in NewNames, phones \in PhoneLists :
          (HasKey(data, name) /\ nn # None /\ nn[1] # "")
          => LET res == edit_record_result(name, nn, phones)
                 r == Lookup(data, name)
             IN  /\ Keys(res.data) = Keys(data)
                 /\ Lookup(res.data, name) = r
                 /\ res.recs[r].name = nn[1]
                 /\ r \in Range(find_records_by_name(res.data, res.recs, nn[1]))

\* After an edit_record, a record whose name value is not its key, and two
\* records of one name value.
C3_Witness ==
    /\ last.op = "edit_record"
    /\ \E i \in 1..Len(data) : recs[data[i][2]].name # data[i][1]
    /\ \E n \in NameStrings : Len(find_records_by_name(data, recs, n)) = 2

\* C4: a traversal from iterator(page_size), consumed while no other
\* traversal is advanced, yields the records once each in insertion order
\* and all of them when it ends, whether or not an earlier traversal ended
\* or was left part-way.
C4_SequentialTraversal ==
    \A t \in Travs :
        (trav[t].kind = "gen" /\ ~disturbed[t])
        => /\ IsPrefix(trav[t].out, Values(data))
           /\ trav[t].pc = "created" => trav[t].out = <<>>
           /\ trav[t].pc = "done" => trav[t].out = Values(data)

\* A traversal that yielded every record of a book of at least two and
\* ended, after another one was left part-way.
C4_Witness ==
    \E t \in Travs, u \in Travs :
        /\ t # u
        /\ trav[t].kind = "gen" /\ trav[t].pc = "done" /\ ~disturbed[t]
        /\ Len(trav[t].out) >= 2
        /\ trav[u].kind = "gen" /\ trav[u].pc = "suspended" /\ disturbed[u]
        /\ Len(trav[u].out) = 1

\* C5: every phone held by every record is a non-empty string of decimal
\* digits only.
C5_PhonesAreDecimal ==
    \A r \in RecIds : \A i \in 1..Len(recs[r].phones) :
        IsDecimalString(recs[r].phones[i])

\* C6: for a record with a birthday days_to_birthday returns an integer
\* >= 0, which is 0 when today's month and day are the birthday's; without
\* a birthday it returns None.
C6_DaysToBirthday ==
    dtb.called
    => IF birthday = None
       THEN dtb.exc = "None" /\ dtb.ret = None
       ELSE /\ dtb.exc = "None"
            /\ dtb.ret # None
            /\ dtb.ret[1] >= 0
            /\ (birthday[1][2] = today[2] /\ birthday[1][3] = today[3]) => dtb.ret[1] = 0

\* C7: add_record never fails on a duplicate key: with valid phones the key
\* maps to a new record of the given name, phones (in order) and birthday,
\* a record stored under the key before is no longer in the collection and
\* every other entry is unchanged; with an invalid phone the call fails
\* with InvalidValue and the collection is as it was.
C7_AddRecord ==
    [][\A name \in NameStrings, phones \in PhoneLists, bd \in Birthdays :
          add_record(name, phones, bd)
          => LET l == IF phones = None THEN <<>> ELSE phones[1]
             IN  IF \A i \in 1..Len(l) : IsDecimalString(l[i])
                 THEN /\ last'.exc = "None"
                      /\ HasKey(data', name)
                      /\ Lookup(data', name) \notin RecIds
                      /\ recs'[Lookup(data', name)] =
                            [name |-> name, phones |-> l, birthday |-> bd]
                      /\ HasKey(data, name) => Lookup(data, name) \notin Range(Values(data'))
                      /\ \A k \in NameStrings \ {name} :
                            /\ HasKey(data', k) = HasKey(data, k)
                            /\ HasKey(data, k)
                               => /\ Lookup(data', k) = Lookup(data, k)
                                  /\ recs'[Lookup(data, k)] = recs[Lookup(data, k)]
                 ELSE /\ last'.exc = "ValueError"
                      /\ data' = data
                      /\ recs' = recs
      ]_vars

\* C8: remove_phone(p) removes the first phone whose value is p (p a str or
\* a Phone, compared by value) and keeps the others in order; with no such
\* phone it raises and the phones are unchanged.
C8_RemovePhone ==
    \A r \in RecIds, a \in PhoneArgs :
        LET res == remove_phone_result(r, a.kind, a.s)
            phs == recs[r].phones
            hits == {i \in 1..Len(phs) : a.kind # "other" /\ phs[i] = a.s}
        IN  IF hits = {}
            THEN res.last.exc = "ValueError" /\ res.recs = recs
            ELSE LET first == CHOOSE i \in hits : \A j \in hits : i <= j
                 IN  /\ res.last.exc = "None"
                     /\ Len(res.recs[r].phones) = Len(phs) - 1
                     /\ \A k \in 1..(Len(phs) - 1) :
                           res.recs[r].phones[k] = IF k < first THEN phs[k] ELSE phs[k + 1]
                     /\ res.recs[r].name = recs[r].name
                     /\ res.recs[r].birthday = recs[r].birthday
                     /\ \A q \in RecIds \ {r} : res.recs[q] = recs[q]

\* A phone was removed from a record that held its value more than once:
\* two phones are left, one of them of the removed value.
C8_Witness ==
    /\ last.op = "remove_phone"
    /\ last.exc = "None"
    /\ \E r \in RecIds :
          /\ Len(recs[r].phones) = 2
          /\ last.ret[2] \in Range(recs[r].phones)
          /\ recs[r].phones[1] # recs[r].phones[2]

\* C9: an edit_record on a key that fails with InvalidValue leaves the
\* record's name value and phones as they were.
C9_EditAllOrNothing ==
    [][\A name \in NameStrings, nn \in NewNames, phones \in PhoneLists :
          (edit_record(name, nn, phones) /\ HasKey(data, name)
           /\ last'.exc = "ValueError")
          => (recs' = recs /\ data' = data)]_vars

\* C10: traversals consumed in any interleaving each yield the records once
\* each in insertion order, all of them by the time they end.
C10_IndependentTraversals ==
    \A t \in Travs :
        trav[t].kind # "none"
        => /\ IsPrefix(trav[t].out, Values(data))
           /\ trav[t].pc = "done" => trav[t].out = Values(data)
====
